---- MODULE Spec2Model ----
(***************************************************************************)
(* Model of transcription_benchmark: analysis.wer.calculate_wer (Spec),    *)
(* the decorator utils.retry.retry_with_backoff (SpecRetry),               *)
(* transcription.gemini.GeminiTranscriber.transcribe (SpecGemini, and      *)
(* SpecGeminiLive with fairness), the three parsers of parsing/            *)
(* (SpecParse) and main (SpecMain, which runs calculate_wer on what the    *)
(* parsers return).  The variables of the calls a specification does not   *)
(* run keep their idle values.                                             *)
(*                                                                         *)
(* A text is a sequence of one-character strings.  A dict is a sequence of *)
(* <<key, value>> pairs with distinct keys, in insertion order (the order  *)
(* in which Python iterates it).  A number held in a row is a reduced      *)
(* fraction <<numerator, denominator>>, so that equality of two cells is   *)
(* equality of their values.                                               *)
(*                                                                         *)
(* calculate_wer delegates normalisation and alignment to the jiwer        *)
(* library (wer.py lines 42-48 and 58-77).  The operators below that model *)
(* a jiwer call follow the library's documented behaviour: the transforms  *)
(* of jiwer.transforms, and process_words, which refuses an empty          *)
(* reference with ValueError, counts the operations of a minimal edit      *)
(* script and divides by hits + substitutions + deletions.  Which minimal  *)
(* edit script the library returns when several exist is not fixed by the  *)
(* source, so the scoring step may take any of them.                       *)
(***************************************************************************)
EXTENDS Integers, Sequences, FiniteSets, TLC

VARIABLES
    ground_truth,               \* argument: dict key -> reference text
    hypotheses,                 \* argument: dict model -> (dict key -> text)
    include_detailed_metrics,   \* argument
    pc,                         \* position in calculate_wer
    ki,                         \* index of the ground-truth item of the outer loop
    mi,                         \* index of the hypotheses item of the inner loop
    row,                        \* the row under construction
    results,                    \* list of finished rows
    warnings,                   \* logger.warning calls so far, as <<key, model>>
    df,                         \* the returned table (rows, then summary rows)
    error,                      \* the exception that left the call, "" if none
    \* retry_with_backoff (utils/retry.py): one invocation of the wrapper
    func,                       \* the wrapped function
    max_retries,                \* decorator argument
    initial_delay,              \* decorator argument
    backoff_factor,             \* decorator argument
    exceptions,                 \* decorator argument: the listed exception types
    rpc,                        \* position in the wrapper
    attempt,                    \* loop variable of the wrapper
    delay,                      \* local of the wrapper
    last_exception,             \* local of the wrapper
    calls,                      \* outcomes of the calls of func so far
    sleeps,                     \* arguments of the time.sleep calls so far
    raised,                     \* the exception that left the wrapper
    \* GeminiTranscriber.transcribe (transcription/gemini.py)
    gpc,                        \* position in transcribe
    files_to_transcribe,        \* number of audio files listed
    request_file,               \* the request file in the bucket
    remote_state,               \* state of the batch job at the service
    job_state,                  \* job.state, as last fetched
    logged_state,               \* the last "Job state:" line of the log
    cleanup,                    \* outcome of _cleanup_request_file
    gerror,                     \* the exception that left transcribe, "" if none
    \* main (main.py)
    mpc,                        \* position in main
    chirp_output_path,          \* None, or the folder of the Chirp results
    gemini_output_paths,        \* the Gemini runs that returned a folder
    ground_truth_data,          \* the parsed ground truth
    all_hypotheses,             \* dict model -> parsed transcripts
    exit_status,                \* the status of sys.exit, or that of a normal end
    \* one call of a parser (parsing/*.py)
    parser,                     \* the class whose parse is called
    parse_input,                \* the files found in the folder
    parse_result                \* the returned mapping, or the exception raised

werVars == <<ground_truth, hypotheses, include_detailed_metrics, pc, ki, mi, row,
             results, warnings, df, error>>

retryVars == <<func, max_retries, initial_delay, backoff_factor, exceptions, rpc,
               attempt, delay, last_exception, calls, sleeps, raised>>

geminiVars == <<gpc, files_to_transcribe, request_file, remote_state, job_state,
                logged_state, cleanup, gerror>>

mainVars == <<mpc, chirp_output_path, gemini_output_paths, ground_truth_data,
              all_hypotheses, exit_status>>

parseVars == <<parser, parse_input, parse_result>>

vars == <<werVars, retryVars, geminiVars, mainVars, parseVars>>

(***************************************************************************)
(* Bounds of the enumerated inputs.                                        *)
(***************************************************************************)
MaxWords == 3
MaxChars == 5
MaxRetries == 3
MaxFiles == 2
MaxRecordings == 2

Keys == {"recording_0", "recording_1"}
Models == {"chirp", "gemini"}
Vocab == {"a", "b"}
ExtraWords == {"a", "c"}

(***************************************************************************)
(* Characters.                                                             *)
(***************************************************************************)
WhiteSpace == {" ", "\t"}
Punctuation == {",", "!"}

Lower(c) ==
    CASE c = "A" -> "a"
      [] c = "B" -> "b"
      [] OTHER -> c

(***************************************************************************)
(* Small helpers on sequences and sets.                                    *)
(***************************************************************************)
Min2(x, y) == IF x <= y THEN x ELSE y

Range(s) == {s[i] : i \in 1..Len(s)}

RECURSIVE SetToSeq(_)
SetToSeq(S) ==
    IF S = {} THEN <<>>
    ELSE LET x == CHOOSE y \in S : TRUE IN <<x>> \o SetToSeq(S \ {x})

RECURSIVE GCD(_, _)
GCD(x, y) == IF y = 0 THEN x ELSE GCD(y, x % y)

\* n / d as a reduced fraction (d > 0, n >= 0).
Frac(n, d) == LET g == GCD(n, d) IN <<n \div g, d \div g>>

Num(n) == <<n, 1>>

FracAdd(x, y) == Frac(x[1] * y[2] + y[1] * x[2], x[2] * y[2])

FracDivInt(x, k) == Frac(x[1], x[2] * k)

FracLeq(x, y) == x[1] * y[2] <= y[1] * x[2]

(***************************************************************************)
(* The transformation of wer.py lines 42-48, one operator per transform.   *)
(***************************************************************************)
\* jiwer.ToLowerCase: s.lower()
ToLowerCase(s) == [i \in 1..Len(s) |-> Lower(s[i])]

\* jiwer.RemoveMultipleSpaces: re.sub(r"\s\s+", " ", s).  A run of two or
\* more whitespace characters becomes one space; a lone one is kept as is.
RECURSIVE SkipSpaces(_)
SkipSpaces(s) ==
    IF s # <<>> /\ Head(s) \in WhiteSpace THEN SkipSpaces(Tail(s)) ELSE s

RECURSIVE RemoveMultipleSpaces(_)
RemoveMultipleSpaces(s) ==
    IF s = <<>> THEN <<>>
    ELSE IF Len(s) >= 2 /\ s[1] \in WhiteSpace /\ s[2] \in WhiteSpace
         THEN <<" ">> \o RemoveMultipleSpaces(SkipSpaces(s))
         ELSE <<Head(s)>> \o RemoveMultipleSpaces(Tail(s))

\* jiwer.Strip: s.strip()
RECURSIVE DropTrailingSpaces(_)
DropTrailingSpaces(s) ==
    IF s # <<>> /\ s[Len(s)] \in WhiteSpace
    THEN DropTrailingSpaces(SubSeq(s, 1, Len(s) - 1))
    ELSE s

Strip(s) == DropTrailingSpaces(SkipSpaces(s))

\* jiwer.RemovePunctuation: every punctuation character is deleted.
IsNotPunctuation(c) == c \notin Punctuation

RemovePunctuation(s) == SelectSeq(s, IsNotPunctuation)

\* jiwer.ReduceToListOfListOfWords: [w for w in s.split(" ") if len(w) >= 1]
RECURSIVE SplitWords(_, _)
SplitWords(s, word) ==
    IF s = <<>> THEN (IF word = <<>> THEN <<>> ELSE <<word>>)
    ELSE IF Head(s) = " "
         THEN (IF word = <<>> THEN <<>> ELSE <<word>>) \o SplitWords(Tail(s), <<>>)
         ELSE SplitWords(Tail(s), Append(word, Head(s)))

\* Mutant: s.split(" ") with the empty words kept.
ReduceToListOfListOfWordsKeepingEmpty(s) ==
    LET RECURSIVE Split(_, _)
        Split(t, word) ==
            IF t = <<>> THEN <<word>>
            ELSE IF Head(t) = " " THEN <<word>> \o Split(Tail(t), <<>>)
                 ELSE Split(Tail(t), Append(word, Head(t)))
    IN  Split(s, <<>>)

ReduceToListOfListOfWords(s) == SplitWords(s, <<>>)

\* jiwer.Compose of the five transforms, in the order of lines 43-47.
transformation(s) ==
    ReduceToListOfListOfWords(
        RemovePunctuation(Strip(RemoveMultipleSpaces(ToLowerCase(s)))))

(***************************************************************************)
(* jiwer.process_words (wer.py lines 58-63; jiwer.wer, lines 71-76, is its *)
(* wer field).  The edit operations are those of a minimal edit script     *)
(* between the two word lists: the cost table of the Levenshtein distance, *)
(* then a walk back from the last cell along cells that realise it.        *)
(***************************************************************************)
\* Mutant: a substitution is charged as a deletion plus an insertion.
SubstitutionCostTwo(r, h) == IF r = h THEN 0 ELSE 2

SubstitutionCost(r, h) == IF r = h THEN 0 ELSE 1

\* Row i of the cost table from row i-1 (prev), both indexed 1..Len(hyp)+1
\* for columns 0..Len(hyp); cur holds the cells already filled.
RECURSIVE FillRow(_, _, _, _, _)
FillRow(prev, r, hyp, cur, j) ==
    IF j > Len(hyp) THEN cur
    ELSE LET del == prev[j + 1] + 1
             ins == cur[j] + 1
             dia == prev[j] + SubstitutionCost(r, hyp[j])
         IN  FillRow(prev, r, hyp, Append(cur, Min2(dia, Min2(del, ins))), j + 1)

\* Rows 0..Len(ref) of the table, as a sequence indexed 1..Len(ref)+1.
RECURSIVE FillTable(_, _, _, _)
FillTable(ref, hyp, table, i) ==
    IF i > Len(ref) THEN table
    ELSE FillTable(ref, hyp,
                   Append(table, FillRow(table[i], ref[i], hyp, <<i>>, 1)),
                   i + 1)

CostTable(ref, hyp) ==
    FillTable(ref, hyp, << [j \in 1..(Len(hyp) + 1) |-> j - 1] >>, 1)

\* cell(i, j) of a table: the cost of turning ref[1..i] into hyp[1..j].
Cell(table, i, j) == table[i + 1][j + 1]

\* The <<substitutions, deletions, insertions>> of every walk from cell
\* (i, j) back to (0, 0) that only takes steps realising the cell's cost.
RECURSIVE Backtrace(_, _, _, _, _)
Backtrace(t, ref, hyp, i, j) ==
    IF i = 0 /\ j = 0 THEN {<<0, 0, 0>>}
    ELSE
      (IF i > 0 /\ j > 0 /\ ref[i] = hyp[j] /\ Cell(t, i, j) = Cell(t, i - 1, j - 1)
       THEN Backtrace(t, ref, hyp, i - 1, j - 1) ELSE {})
      \cup
      (IF i > 0 /\ j > 0 /\ ref[i] # hyp[j] /\ Cell(t, i, j) = Cell(t, i - 1, j - 1) + 1
       THEN {<<c[1] + 1, c[2], c[3]>> : c \in Backtrace(t, ref, hyp, i - 1, j - 1)}
       ELSE {})
      \cup
      (IF i > 0 /\ Cell(t, i, j) = Cell(t, i - 1, j) + 1
       THEN {<<c[1], c[2] + 1, c[3]>> : c \in Backtrace(t, ref, hyp, i - 1, j)}
       ELSE {})
      \cup
      (IF j > 0 /\ Cell(t, i, j) = Cell(t, i, j - 1) + 1
       THEN {<<c[1], c[2], c[3] + 1>> : c \in Backtrace(t, ref, hyp, i, j - 1)}
       ELSE {})

EditCounts(ref, hyp) ==
    Backtrace(CostTable(ref, hyp), ref, hyp, Len(ref), Len(hyp))

\* Mutant: the error count is divided by the length of the hypothesis.
WordErrorRateOverHypothesis(S, D, I, H) == Frac(S + D + I, H + S + I)

\* wer = (S + D + I) / (H + S + D)
WordErrorRate(S, D, I, H) == Frac(S + D + I, H + S + D)

\* Mutant: the deletions are not taken off the hits.
MeasuresHitsWithDeletions(ref, c) ==
    LET S == c[1]
        D == c[2]
        I == c[3]
        H == Len(ref) - S
    IN  [wer           |-> WordErrorRate(S, D, I, H),
         insertions    |-> I,
         deletions     |-> D,
         substitutions |-> S,
         hits          |-> H]

\* The measures for one count of operations; hits = len(ref) - (S + D).
Measures(ref, c) ==
    LET S == c[1]
        D == c[2]
        I == c[3]
        H == Len(ref) - (S + D)
    IN  [wer           |-> WordErrorRate(S, D, I, H),
         insertions    |-> I,
         deletions     |-> D,
         substitutions |-> S,
         hits          |-> H]

\* The reference is refused when it is the empty string or when the
\* transformation leaves it no word ("one or more references are empty
\* strings", "each reference should be a non-empty list of strings").
ReferenceRefused(reference) == reference = <<>> \/ transformation(reference) = <<>>

\* The possible outputs of process_words(reference, hypothesis, ...) when the
\* reference is accepted.
process_words(reference, hypothesis) ==
    LET ref == transformation(reference)
        hyp == transformation(hypothesis)
    IN  {Measures(ref, c) : c \in EditCounts(ref, hyp)}

(***************************************************************************)
(* Dicts, rows and the table.                                              *)
(***************************************************************************)
\* dict.keys() of a dict held as a sequence of <<key, value>> pairs.
DictKeys(d) == {d[i][1] : i \in 1..Len(d)}

\* hypothesis_set.get(key): None when the key is absent (wer.py line 54).
None == [none |-> TRUE]

get(hypothesis_set, key) ==
    IF key \in DOMAIN hypothesis_set
    THEN [none |-> FALSE, str |-> hypothesis_set[key]]
    ELSE None

\* "if hypothesis:" (wer.py line 55): None and the empty string are falsy.
Truthy(hypothesis) == ~hypothesis.none /\ hypothesis.str # <<>>

\* Mutant: the insertions and deletions columns are exchanged.
ScoredCellsSwapped(model_name, output, detailed) ==
    IF detailed
    THEN ((model_name \o "_wer") :> output.wer)
         @@ ((model_name \o "_insertions") :> Num(output.deletions))
         @@ ((model_name \o "_deletions") :> Num(output.insertions))
         @@ ((model_name \o "_substitutions") :> Num(output.substitutions))
         @@ ((model_name \o "_hits") :> Num(output.hits))
    ELSE ((model_name \o "_wer") :> output.wer)

\* The cells written for one scored pair (wer.py lines 64-68 and 77).
ScoredCells(model_name, output, detailed) ==
    IF detailed
    THEN ((model_name \o "_wer") :> output.wer)
         @@ ((model_name \o "_insertions") :> Num(output.insertions))
         @@ ((model_name \o "_deletions") :> Num(output.deletions))
         @@ ((model_name \o "_substitutions") :> Num(output.substitutions))
         @@ ((model_name \o "_hits") :> Num(output.hits))
    ELSE ((model_name \o "_wer") :> output.wer)

\* df.select_dtypes(include=['number']).columns (wer.py line 86): every
\* column but "file"; a cell missing from a row is NaN.
numeric_cols(rows) == (UNION {DOMAIN rows[i] : i \in 1..Len(rows)}) \ {"file"}

\* The values of a column that are present, in row order.
RECURSIVE PresentValues(_, _)
PresentValues(rows, col) ==
    IF rows = <<>> THEN <<>>
    ELSE (IF col \in DOMAIN Head(rows) THEN <<Head(rows)[col]>> ELSE <<>>)
         \o PresentValues(Tail(rows), col)

RECURSIVE FracSum(_)
FracSum(vals) ==
    IF vals = <<>> THEN Num(0) ELSE FracAdd(Head(vals), FracSum(Tail(vals)))

\* Series.mean(), NaN skipped.
Mean(vals) == FracDivInt(FracSum(vals), Len(vals))

RECURSIVE InsertSorted(_, _)
InsertSorted(sorted, v) ==
    IF sorted = <<>> THEN <<v>>
    ELSE IF FracLeq(v, Head(sorted)) THEN <<v>> \o sorted
         ELSE <<Head(sorted)>> \o InsertSorted(Tail(sorted), v)

RECURSIVE SortFracs(_)
SortFracs(vals) ==
    IF vals = <<>> THEN <<>> ELSE InsertSorted(SortFracs(Tail(vals)), Head(vals))

\* Series.median(), NaN skipped: the middle value, or the mean of the two
\* middle values.
Median(vals) ==
    LET sorted == SortFracs(vals)
        n == Len(sorted)
    IN  IF n % 2 = 1 THEN sorted[(n + 1) \div 2]
        ELSE FracDivInt(FracAdd(sorted[n \div 2], sorted[(n \div 2) + 1]), 2)

\* Mutant: an absent value counts as 0 in the mean.
avg_rowCountingAbsent(rows) ==
    [c \in numeric_cols(rows) |->
        FracDivInt(FracSum(PresentValues(rows, c)), Len(rows))]
    @@ ("file" :> "AVERAGE")

\* wer.py lines 87-88 and 90-91.
avg_row(rows) ==
    [c \in numeric_cols(rows) |-> Mean(PresentValues(rows, c))]
    @@ ("file" :> "AVERAGE")

median_row(rows) ==
    [c \in numeric_cols(rows) |-> Median(PresentValues(rows, c))]
    @@ ("file" :> "MEDIAN")

(***************************************************************************)
(* The inputs that are enumerated.                                         *)
(***************************************************************************)
\* Texts of the table runs: empty, punctuation only, one capitalised word
\* followed by a comma, two words.
TableTexts == {<<>>, <<",">>, <<"A", ",">>, <<"a", " ", "b">>}

ReferenceTexts == {<<>>, <<",">>, <<"a", " ", "b">>}

\* Keys and texts of the runs on three recordings: a hypothesis is the
\* reference or a lone punctuation mark.
StatKeys == <<"recording_0", "recording_1", "recording_2">>

StatTexts == {<<"a", " ", "b">>, <<",">>}

StatHypothesisSets == UNION {[K -> StatTexts] : K \in SUBSET Range(StatKeys)}

\* Every dict from some of the keys in K to values in V, in every order.
RECURSIVE Dicts(_, _, _)
Dicts(K, V, n) ==
    IF n = 0 THEN {<<>>}
    ELSE LET shorter == Dicts(K, V, n - 1)
         IN  shorter \cup
             {Append(d, <<k, v>>) :
                 d \in {e \in shorter : Len(e) = n - 1},
                 k \in K, v \in V} 

DistinctKeys(d) == \A i, j \in 1..Len(d) : d[i][1] = d[j][1] => i = j

GroundTruths == {d \in Dicts(Keys, ReferenceTexts, Cardinality(Keys)) : DistinctKeys(d)}

\* The dict of one model: any keys, any texts.
HypothesisSets == UNION {[K -> TableTexts] : K \in SUBSET Keys}

\* The hypotheses dict, models in one fixed insertion order.
HypothesesOver(ms) ==
    LET order == SetToSeq(ms)
    IN  {[i \in 1..Len(order) |-> <<order[i], f[order[i]]>>] :
            f \in [ms -> HypothesisSets]}

HypothesesDicts == UNION {HypothesesOver(ms) : ms \in SUBSET Models}

\* Texts of up to MaxWords one-letter words, single spaces between them.
RECURSIVE WordLists(_, _)
WordLists(V, n) ==
    IF n = 0 THEN {<<>>}
    ELSE LET shorter == WordLists(V, n - 1)
         IN  shorter \cup {Append(w, v) : w \in {u \in shorter : Len(u) = n - 1}, v \in V}

RECURSIVE Join(_)
Join(words) ==
    IF words = <<>> THEN <<>>
    ELSE IF Len(words) = 1 THEN <<words[1]>>
    ELSE <<words[1], " ">> \o Join(Tail(words))

\* words with x put before position p (p = Len(words) + 1: at the end).
InsertAt(words, p, x) ==
    SubSeq(words, 1, p - 1) \o <<x>> \o SubSeq(words, p, Len(words))

\* Characters of the texts enumerated character by character.
TextChars == {"a", " ", "\t", ","}

\* The text itself and the texts that differ from it in the case of one
\* letter, by one more punctuation character, or by one more whitespace
\* character of the same kind next to a whitespace character.
Variants(text) ==
    {text}
    \cup {[text EXCEPT ![p] = "A"] : p \in {q \in 1..Len(text) : text[q] = "a"}}
    \cup {InsertAt(text, p, ",") : p \in 1..(Len(text) + 1)}
    \cup {InsertAt(text, p, text[p]) : p \in {q \in 1..Len(text) : text[q] \in WhiteSpace}}

(***************************************************************************)
(* calculate_wer as a state machine.                                       *)
(***************************************************************************)
\* No exception (Python's None).
NoException == [type |-> "None", attempt |-> 0 - 1]

\* The wrapper of retry_with_backoff is not running.
RetryUnused ==
    /\ func = "none"
    /\ max_retries = 0
    /\ initial_delay = 0
    /\ backoff_factor = 0
    /\ exceptions = {}
    /\ rpc = "idle"
    /\ attempt = 0
    /\ delay = 0
    /\ last_exception = NoException
    /\ calls = <<>>
    /\ sleeps = <<>>
    /\ raised = NoException

\* The value of a mapping that does not exist (yet), and the exceptions that
\* stand in the place of a mapping.
NoMapping == [kind |-> "None"]
Raised(message) == [kind |-> "raised", message |-> message]

\* main is not running.
MainUnused ==
    /\ mpc = "idle"
    /\ chirp_output_path = "None"
    /\ gemini_output_paths = {}
    /\ ground_truth_data = NoMapping
    /\ all_hypotheses = <<>>
    /\ exit_status = "none"

\* No parser is running.
ParseUnused ==
    /\ parser = "none"
    /\ parse_input = NoMapping
    /\ parse_result = NoMapping

\* GeminiTranscriber.transcribe is not running.
GeminiUnused ==
    /\ gpc = "idle"
    /\ files_to_transcribe = 0
    /\ request_file = "none"
    /\ remote_state = "none"
    /\ job_state = "none"
    /\ logged_state = "none"
    /\ cleanup = "none"
    /\ gerror = ""

Idle ==
    /\ pc = "start"
    /\ ki = 0
    /\ mi = 0
    /\ row = ("file" :> "")
    /\ results = <<>>
    /\ warnings = <<>>
    /\ df = <<>>
    /\ error = ""

\* A call on a table of up to two recordings and two models.
InitTable ==
    /\ ground_truth \in GroundTruths
    /\ hypotheses \in HypothesesDicts
    /\ include_detailed_metrics \in BOOLEAN
    /\ Idle

\* A call on one recording and two models whose hypotheses differ by one
\* inserted word.
InitWords ==
    /\ \E refw \in WordLists(Vocab, MaxWords), hypw \in WordLists(Vocab, MaxWords) :
         \E p \in 1..(Len(hypw) + 1), x \in ExtraWords :
            /\ ground_truth = << <<"recording_0", Join(refw)>> >>
            /\ hypotheses =
                 << <<"chirp", ("recording_0" :> Join(hypw))>>,
                    <<"gemini", ("recording_0" :> Join(InsertAt(hypw, p, x)))>> >>
    /\ include_detailed_metrics = TRUE
    /\ Idle

\* A call on three recordings with the same reference and two models, each
\* with or without a hypothesis for each recording.
InitStats ==
    /\ ground_truth = [i \in 1..Len(StatKeys) |-> <<StatKeys[i], <<"a", " ", "b">> >>]
    /\ \E f \in [Models -> StatHypothesisSets] :
          hypotheses = << <<"chirp", f["chirp"]>>, <<"gemini", f["gemini"]>> >>
    /\ include_detailed_metrics \in BOOLEAN
    /\ Idle

\* A call on one recording and one model, the reference any text of up to
\* MaxChars characters, the hypothesis a variant of the reference.
InitChars ==
    /\ \E reference \in WordLists(TextChars, MaxChars) :
          \E hypothesis \in Variants(reference) :
             /\ ground_truth = << <<"recording_0", reference>> >>
             /\ hypotheses = << <<"chirp", ("recording_0" :> hypothesis)>> >>
    /\ include_detailed_metrics = TRUE
    /\ Idle

Init ==
    /\ InitTable \/ InitWords \/ InitStats \/ InitChars
    /\ RetryUnused
    /\ GeminiUnused
    /\ MainUnused
    /\ ParseUnused

\* Mutant: the hypotheses dict is not checked.
CheckInputsGroundTruthOnly ==
    /\ pc = "start"
    /\ IF ground_truth = <<>>
       THEN /\ error' = "ValueError: Ground truth dictionary is empty"
            /\ pc' = "raised"
            /\ UNCHANGED <<ki, results>>
       ELSE /\ results' = <<>>
            /\ ki' = 1
            /\ pc' = "for_key"
            /\ UNCHANGED error
    /\ UNCHANGED <<ground_truth, hypotheses, include_detailed_metrics, mi, row,
                   warnings, df>>
    /\ UNCHANGED <<retryVars, geminiVars, mainVars, parseVars>>

\* wer.py lines 34-48: the two input checks.
CheckInputs ==
    /\ pc = "start"
    /\ IF ground_truth = <<>>
       THEN /\ error' = "ValueError: Ground truth dictionary is empty"
            /\ pc' = "raised"
            /\ UNCHANGED <<ki, results>>
       ELSE IF hypotheses = <<>>
       THEN /\ error' = "ValueError: Hypotheses dictionary is empty"
            /\ pc' = "raised"
            /\ UNCHANGED <<ki, results>>
       ELSE /\ results' = <<>>
            /\ ki' = 1
            /\ pc' = "for_key"
            /\ UNCHANGED error
    /\ UNCHANGED <<ground_truth, hypotheses, include_detailed_metrics, mi, row,
                   warnings, df>>
    /\ UNCHANGED <<retryVars, geminiVars, mainVars, parseVars>>

\* wer.py lines 50-51: the next ground-truth item opens a row.
NextKey ==
    /\ pc = "for_key"
    /\ ki <= Len(ground_truth)
    /\ row' = ("file" :> ground_truth[ki][1])
    /\ mi' = 1
    /\ pc' = "for_model"
    /\ UNCHANGED <<ground_truth, hypotheses, include_detailed_metrics, ki,
                   results, warnings, df, error>>
    /\ UNCHANGED <<retryVars, geminiVars, mainVars, parseVars>>

\* Mutant: a pair without hypothesis is given a WER of 0.
WarnMissingZeroFill(key, model_name) ==
    /\ warnings' = Append(warnings, <<key, model_name>>)
    /\ row' = ((model_name \o "_wer") :> Num(0)) @@ row
    /\ mi' = mi + 1
    /\ UNCHANGED <<pc, error>>

\* wer.py lines 78-79: no hypothesis, a warning, and on to the next model.
WarnMissing(key, model_name) ==
    /\ warnings' = Append(warnings, <<key, model_name>>)
    /\ mi' = mi + 1
    /\ UNCHANGED <<pc, row, error>>

\* wer.py lines 53-79: one model of the current row.
ScoreModel ==
    /\ pc = "for_model"
    /\ mi <= Len(hypotheses)
    /\ LET key == ground_truth[ki][1]
           reference == ground_truth[ki][2]
           model_name == hypotheses[mi][1]
           hypothesis == get(hypotheses[mi][2], key)
       IN  IF Truthy(hypothesis)
           THEN IF ReferenceRefused(reference)
                THEN /\ error' = "ValueError: jiwer"
                     /\ pc' = "raised"
                     /\ UNCHANGED <<row, mi, warnings>>
                ELSE /\ \E output \in process_words(reference, hypothesis.str) :
                          row' = ScoredCells(model_name, output,
                                             include_detailed_metrics) @@ row
                     /\ mi' = mi + 1
                     /\ UNCHANGED <<pc, warnings, error>>
           ELSE WarnMissing(key, model_name)
    /\ UNCHANGED <<ground_truth, hypotheses, include_detailed_metrics, ki,
                   results, df>>
    /\ UNCHANGED <<retryVars, geminiVars, mainVars, parseVars>>

\* Mutant: a row in which no model was scored is dropped.
AppendRowIfScored ==
    /\ pc = "for_model"
    /\ mi > Len(hypotheses)
    /\ results' = IF DOMAIN row = {"file"} THEN results ELSE Append(results, row)
    /\ ki' = ki + 1
    /\ pc' = "for_key"
    /\ UNCHANGED <<ground_truth, hypotheses, include_detailed_metrics, mi, row,
                   warnings, df, error>>
    /\ UNCHANGED <<retryVars, geminiVars, mainVars, parseVars>>

\* wer.py line 81: the row is appended.
AppendRow ==
    /\ pc = "for_model"
    /\ mi > Len(hypotheses)
    /\ results' = Append(results, row)
    /\ ki' = ki + 1
    /\ pc' = "for_key"
    /\ UNCHANGED <<ground_truth, hypotheses, include_detailed_metrics, mi, row,
                   warnings, df, error>>
    /\ UNCHANGED <<retryVars, geminiVars, mainVars, parseVars>>

\* Mutant: the summary rows are concatenated in the other order.
SummarizeMedianFirst ==
    /\ pc = "for_key"
    /\ ki > Len(ground_truth)
    /\ df' = results \o <<median_row(results), avg_row(results)>>
    /\ pc' = "done"
    /\ UNCHANGED <<ground_truth, hypotheses, include_detailed_metrics, ki, mi,
                   row, results, warnings, error>>
    /\ UNCHANGED <<retryVars, geminiVars, mainVars, parseVars>>

\* wer.py lines 83-96: the table, its two summary rows, the return.
Summarize ==
    /\ pc = "for_key"
    /\ ki > Len(ground_truth)
    /\ df' = results \o <<avg_row(results), median_row(results)>>
    /\ pc' = "done"
    /\ UNCHANGED <<ground_truth, hypotheses, include_detailed_metrics, ki, mi,
                   row, results, warnings, error>>
    /\ UNCHANGED <<retryVars, geminiVars, mainVars, parseVars>>

Next == CheckInputs \/ NextKey \/ ScoreModel \/ AppendRow \/ Summarize

Spec == Init /\ [][Next]_vars

(***************************************************************************)
(* retry_with_backoff (utils/retry.py): one invocation of the wrapper.     *)
(* An exception is a record of its type and of the attempt that raised it; *)
(* the outcome of a call of func is such a record, of type "return" when   *)
(* the call returned.  Delays are whole seconds.                           *)
(***************************************************************************)
\* Defaults of the decorator (retry.py lines 15-16) and the max_retries of
\* its two uses.
DefaultInitialDelay == 1
DefaultBackoffFactor == 2
ChirpMaxRetries == 3
GeminiMaxRetries == 3

InitialDelays == {1, 3}
BackoffFactors == {2, 3}

\* What a call of func can raise: an API error, a ValueError, and an
\* exception that is not an Exception.
ExceptionTypes == {"GoogleAPIError", "ValueError", "KeyboardInterrupt"}

\* The values of the argument exceptions.
ExceptionLists == {{"GoogleAPIError"}, {"GoogleAPIError", "Exception"}, {"Exception"}}

\* issubclass(type, cls) over the types above.
IsSubclass(type, cls) ==
    \/ type = cls
    \/ cls = "Exception" /\ type \in {"GoogleAPIError", "ValueError"}

\* Mutant: a bare except.
CaughtWhateverItIs(type, listed) == TRUE

\* retry.py line 40: except exceptions as e
Caught(type, listed) == \E cls \in listed : IsSubclass(type, cls)

\* Mutant: range(max_retries + 2).
LoopContinuesOnceMore(a, m) == a <= m + 1

\* retry.py line 37: attempt in range(max_retries + 1)
LoopContinues(a, m) == a <= m

\* Mutant: the sleep is taken after the last attempt too.
HasRetryLeftAlways(a, m) == a <= m

\* retry.py line 42
HasRetryLeft(a, m) == a < m

\* calculate_wer is not running.
WerUnused ==
    /\ ground_truth = <<>>
    /\ hypotheses = <<>>
    /\ include_detailed_metrics = FALSE
    /\ pc = "idle"
    /\ ki = 0
    /\ mi = 0
    /\ row = ("file" :> "")
    /\ results = <<>>
    /\ warnings = <<>>
    /\ df = <<>>
    /\ error = ""

\* retry.py lines 34-35: the wrapper has been entered.
WrapperEntered ==
    /\ rpc = "loop"
    /\ attempt = 0
    /\ delay = initial_delay
    /\ last_exception = NoException
    /\ calls = <<>>
    /\ sleeps = <<>>
    /\ raised = NoException

\* An invocation of a function decorated with any arguments, or of
\* ChirpTranscriber.transcribe as decorated at chirp.py line 55.
InitRetry ==
    /\ \/ /\ func = "func"
          /\ max_retries \in 0..MaxRetries
          /\ initial_delay \in InitialDelays
          /\ backoff_factor \in BackoffFactors
          /\ exceptions \in ExceptionLists
       \/ /\ func = "ChirpTranscriber.transcribe"
          /\ max_retries = ChirpMaxRetries
          /\ initial_delay = DefaultInitialDelay
          /\ backoff_factor = DefaultBackoffFactor
          /\ exceptions = {"GoogleAPIError"}
    /\ WrapperEntered
    /\ WerUnused
    /\ GeminiUnused
    /\ MainUnused
    /\ ParseUnused

\* retry.py lines 37-52: one iteration of the loop.  The call returns, or
\* raises a listed exception (kept, then a sleep if a retry is left), or
\* raises another exception, which leaves the wrapper.  A return of
\* _create_jsonl_for_batch has uploaded the request file (gemini.py 131).
RetryCall ==
    /\ rpc = "loop"
    /\ LoopContinues(attempt, max_retries)
    /\ \E type \in {"return"} \cup ExceptionTypes :
          LET outcome == [type |-> type, attempt |-> attempt]
          IN  /\ calls' = Append(calls, outcome)
              /\ IF type = "return"
                 THEN /\ rpc' = "returned"
                      /\ request_file' = IF func = "_create_jsonl_for_batch"
                                         THEN "uploaded" ELSE request_file
                      /\ UNCHANGED <<attempt, delay, last_exception, sleeps, raised>>
                 ELSE IF Caught(type, exceptions)
                 THEN /\ last_exception' = outcome
                      /\ IF HasRetryLeft(attempt, max_retries)
                         THEN /\ sleeps' = Append(sleeps, delay)
                              /\ delay' = delay * backoff_factor
                         ELSE UNCHANGED <<sleeps, delay>>
                      /\ attempt' = attempt + 1
                      /\ UNCHANGED <<rpc, raised, request_file>>
                 ELSE /\ raised' = outcome
                      /\ rpc' = "raised"
                      /\ UNCHANGED <<attempt, delay, last_exception, sleeps,
                                     request_file>>
    /\ UNCHANGED <<func, max_retries, initial_delay, backoff_factor, exceptions>>
    /\ UNCHANGED <<gpc, files_to_transcribe, logged_state, remote_state, job_state, cleanup, gerror>>
    /\ UNCHANGED <<werVars, mainVars, parseVars>>

\* retry.py line 54: the loop is over, the last exception is raised.
RetryRaise ==
    /\ rpc = "loop"
    /\ ~LoopContinues(attempt, max_retries)
    /\ raised' = last_exception
    /\ rpc' = "raised"
    /\ UNCHANGED <<func, max_retries, initial_delay, backoff_factor, exceptions,
                   attempt, delay, last_exception, calls, sleeps>>
    /\ UNCHANGED <<werVars, geminiVars, mainVars, parseVars>>

NextRetry == RetryCall \/ RetryRaise

SpecRetry == InitRetry /\ [][NextRetry]_vars

(***************************************************************************)
(* GeminiTranscriber.transcribe (transcription/gemini.py lines 137-216).   *)
(* The bucket and the batch service are the environment: a listing, an     *)
(* upload, a job creation or a job fetch succeeds or raises, and the job   *)
(* changes state at the service on its own.                                *)
(***************************************************************************)
\* gemini.py line 181
completed_states == {"JOB_STATE_SUCCEEDED", "JOB_STATE_FAILED", "JOB_STATE_CANCELLED"}

\* States of a batch job: the completed ones, two earlier ones, and one in
\* which the service has given the job up.
JobStates ==
    completed_states \cup {"JOB_STATE_PENDING", "JOB_STATE_RUNNING", "JOB_STATE_EXPIRED"}

\* States the service never leaves.
JobFinalStates == completed_states \cup {"JOB_STATE_EXPIRED"}

\* What list_gcs_files, batches.create and batches.get can raise.
ServiceErrors == {"GoogleAPIError"}

InitGemini ==
    /\ gpc = "start"
    /\ files_to_transcribe = 0
    /\ request_file = "none"
    /\ remote_state = "none"
    /\ job_state = "none"
    /\ logged_state = "none"
    /\ cleanup = "none"
    /\ gerror = ""
    /\ RetryUnused
    /\ WerUnused
    /\ MainUnused
    /\ ParseUnused

\* gemini.py lines 158-170: the audio files are listed; with none of them
\* ValueError is raised, otherwise the decorated _create_jsonl_for_batch is
\* entered (decorator of line 71).
GeminiListFiles ==
    /\ gpc = "start"
    /\ \/ /\ \E e \in ServiceErrors \cup {"ValueError: Invalid GCS URI"} : gerror' = e
          /\ gpc' = "raised"
          /\ UNCHANGED <<files_to_transcribe, retryVars>>
       \/ \E n \in 0..MaxFiles :
             /\ files_to_transcribe' = n
             /\ IF n = 0
                THEN /\ gerror' = "ValueError: No audio files found"
                     /\ gpc' = "raised"
                     /\ UNCHANGED retryVars
                ELSE /\ gpc' = "create_jsonl"
                     /\ func' = "_create_jsonl_for_batch"
                     /\ max_retries' = GeminiMaxRetries
                     /\ initial_delay' = DefaultInitialDelay
                     /\ backoff_factor' = DefaultBackoffFactor
                     /\ exceptions' = {"GoogleAPIError", "Exception"}
                     /\ rpc' = "loop"
                     /\ attempt' = 0
                     /\ delay' = DefaultInitialDelay
                     /\ last_exception' = NoException
                     /\ calls' = <<>>
                     /\ sleeps' = <<>>
                     /\ raised' = NoException
                     /\ UNCHANGED gerror
    /\ UNCHANGED <<request_file, logged_state, remote_state, job_state, cleanup>>
    /\ UNCHANGED <<werVars, mainVars, parseVars>>

\* gemini.py line 170: the exception that left the wrapper leaves transcribe.
GeminiJsonlFailed ==
    /\ gpc = "create_jsonl"
    /\ rpc = "raised"
    /\ gerror' = raised.type
    /\ gpc' = "raised"
    /\ UNCHANGED <<files_to_transcribe, logged_state, request_file, remote_state, job_state, cleanup>>
    /\ UNCHANGED <<werVars, retryVars, mainVars, parseVars>>

\* gemini.py lines 170-181: the request file is uploaded, the batch job is
\* created, or batches.create raises.
GeminiCreateJob ==
    /\ gpc = "create_jsonl"
    /\ rpc = "returned"
    /\ \/ /\ \E e \in ServiceErrors : gerror' = e
          /\ gpc' = "raised"
          /\ UNCHANGED <<remote_state, job_state>>
       \/ /\ \E st \in JobStates : remote_state' = st /\ job_state' = st
          /\ gpc' = "poll"
          /\ UNCHANGED gerror
    /\ UNCHANGED <<files_to_transcribe, logged_state, request_file, cleanup>>
    /\ UNCHANGED <<werVars, retryVars, mainVars, parseVars>>

\* The service moves the job to another state.
RemoteJob ==
    /\ gpc = "poll"
    /\ remote_state \notin JobFinalStates
    /\ \E st \in JobStates \ {remote_state, "JOB_STATE_PENDING"} : remote_state' = st
    /\ UNCHANGED <<gpc, files_to_transcribe, logged_state, request_file, job_state, cleanup, gerror>>
    /\ UNCHANGED <<werVars, retryVars, mainVars, parseVars>>

\* Mutant: the job is not fetched again, the loop tests the job it has.
GeminiPollStale ==
    /\ gpc = "poll"
    /\ job_state \notin completed_states
    /\ \/ /\ \E e \in ServiceErrors : gerror' = e
          /\ gpc' = "raised"
          /\ UNCHANGED <<job_state, logged_state>>
       \/ /\ job_state' = job_state
          /\ logged_state' = job_state
          /\ UNCHANGED <<gpc, gerror>>
    /\ UNCHANGED <<files_to_transcribe, request_file, remote_state, cleanup>>
    /\ UNCHANGED <<werVars, retryVars, mainVars, parseVars>>

\* gemini.py lines 183-186: one round of the polling loop.
GeminiPoll ==
    /\ gpc = "poll"
    /\ job_state \notin completed_states
    /\ \/ /\ \E e \in ServiceErrors : gerror' = e
          /\ gpc' = "raised"
          /\ UNCHANGED <<job_state, logged_state>>
       \/ /\ job_state' = remote_state
          /\ logged_state' = remote_state
          /\ UNCHANGED <<gpc, gerror>>
    /\ UNCHANGED <<files_to_transcribe, request_file, remote_state, cleanup>>
    /\ UNCHANGED <<werVars, retryVars, mainVars, parseVars>>

\* gemini.py lines 189 and 199-216: the deletion of the request file is
\* attempted; a failure is logged and swallowed.
GeminiCleanup ==
    /\ gpc = "poll"
    /\ job_state \in completed_states
    /\ \/ cleanup' = "deleted" /\ request_file' = "deleted"
       \/ cleanup' = "failed" /\ UNCHANGED request_file
    /\ gpc' = "report"
    /\ UNCHANGED <<files_to_transcribe, logged_state, remote_state, job_state, gerror>>
    /\ UNCHANGED <<werVars, retryVars, mainVars, parseVars>>

\* Mutant: only a failed job is an error.
GeminiReportFailedOnly ==
    /\ gpc = "report"
    /\ IF job_state = "JOB_STATE_FAILED"
       THEN gerror' = "RuntimeError" /\ gpc' = "raised"
       ELSE gpc' = "returned" /\ UNCHANGED gerror
    /\ UNCHANGED <<files_to_transcribe, logged_state, request_file, remote_state, job_state, cleanup>>
    /\ UNCHANGED <<werVars, retryVars, mainVars, parseVars>>

\* gemini.py lines 191-197: RuntimeError unless the job succeeded, else the
\* output folder is returned.
GeminiReport ==
    /\ gpc = "report"
    /\ IF job_state # "JOB_STATE_SUCCEEDED"
       THEN gerror' = "RuntimeError" /\ gpc' = "raised"
       ELSE gpc' = "returned" /\ UNCHANGED gerror
    /\ UNCHANGED <<files_to_transcribe, logged_state, request_file, remote_state, job_state, cleanup>>
    /\ UNCHANGED <<werVars, retryVars, mainVars, parseVars>>

NextGemini ==
    \/ GeminiListFiles
    \/ RetryCall
    \/ RetryRaise
    \/ GeminiJsonlFailed
    \/ GeminiCreateJob
    \/ RemoteJob
    \/ GeminiPoll
    \/ GeminiCleanup
    \/ GeminiReport

SpecGemini == InitGemini /\ [][NextGemini]_vars

\* A round of the polling loop whose status request is answered.
PollAnswered == GeminiPoll /\ gerror' = gerror

\* transcribe is sequential code: time.sleep(BATCH_JOB_POLL_INTERVAL) ends,
\* an answered status request is followed by the next test of the loop, and
\* the cleanup and the report that follow the loop are executed.  Nothing
\* is assumed of the service: neither that the job moves, nor that a
\* request is answered.
SpecGeminiLive ==
    /\ SpecGemini
    /\ WF_vars(PollAnswered)
    /\ WF_vars(GeminiCleanup)
    /\ WF_vars(GeminiReport)

(***************************************************************************)
(* The parsers (parsing/groundtruth.py, parsing/chirp.py,                  *)
(* parsing/gemini.py).  A recording is a number; the URIs of the files of  *)
(* a folder, and the fileUri of the requests of a Gemini batch, sort in    *)
(* the order of the recordings they belong to.  A folder is a function     *)
(* from the recordings it has a file for to what reading that file gives.  *)
(* A returned mapping is a function from the index i of key recording_i to *)
(* the recording whose transcript is stored and the kind of text stored.   *)
(***************************************************************************)
Recordings == 1..MaxRecordings

Dict(f) == [kind |-> "dict", dict |-> f]

\* sorted(...) of a set of URIs.
RECURSIVE SortedSeq(_)
SortedSeq(S) ==
    IF S = {} THEN <<>>
    ELSE LET m == CHOOSE x \in S : \A y \in S : x <= y
         IN  <<m>> \o SortedSeq(S \ {m})

\* What reading a ground-truth file gives: a text, an empty text, an error
\* of the download or of the decoding.
TextFileOutcomes == {"text", "empty", "error"}

\* What reading a Chirp result file gives: a transcript, none (download
\* failed, no results, empty transcript), or content that is not JSON.
ChirpFileOutcomes == {"text", "empty", "invalid_json"}

\* What a line of a Gemini result file holds: a response with a text, with
\* an empty text, no response, a response without the expected fields, a
\* line that is not JSON or has no request fileUri.
GeminiLineOutcomes == {"text", "empty_text", "no_response", "bad_response", "unparseable"}

\* The result files of a Gemini batch.
ResultFiles == {1, 2}

Folders(outcomes) == UNION {[S -> outcomes] : S \in SUBSET Recordings}

\* The lines of the result files, each in one file, and whether each file
\* can be downloaded.
GeminiFolders ==
    {[lines |-> l, downloaded |-> d] :
        l \in UNION {[S -> [outcome : GeminiLineOutcomes, file : ResultFiles]] :
                        S \in SUBSET Recordings},
        d \in [ResultFiles -> BOOLEAN]}

\* for i, gcs_uri in enumerate(sorted files): recording_i is set when the
\* file gives a text (groundtruth.py lines 88-99, chirp.py lines 59-64).
RECURSIVE EnumerateFiles(_, _, _, _)
EnumerateFiles(sorted, i, files, acc) ==
    IF sorted = <<>> THEN acc
    ELSE LET r == Head(sorted)
         IN  EnumerateFiles(Tail(sorted), i + 1, files,
                 IF files[r] = "text"
                 THEN acc @@ (i :> [rec |-> r, kind |-> "text"])
                 ELSE acc)

\* groundtruth.py lines 77-102.
GroundTruthParser_parse(files) ==
    IF DOMAIN files = {}
    THEN Raised("ValueError: No .txt files found")
    ELSE Dict(EnumerateFiles(SortedSeq(DOMAIN files), 0, files, <<>>))

\* chirp.py lines 50-67; json.loads of _parse_response (line 33) is in no
\* try block.
ChirpParser_parse(files) ==
    IF DOMAIN files = {} THEN Dict(<<>>)
    ELSE IF \E r \in DOMAIN files : files[r] = "invalid_json"
    THEN Raised("JSONDecodeError")
    ELSE Dict(EnumerateFiles(SortedSeq(DOMAIN files), 0, files, <<>>))

\* gemini.py (parsing) lines 56-89: a response is stored under recording_i,
\* whatever its text; a missing response is stored as an error message; a
\* response without the expected fields is skipped.
RECURSIVE EnumerateLines(_, _, _, _)
EnumerateLines(sorted, i, lines, acc) ==
    IF sorted = <<>> THEN acc
    ELSE LET r == Head(sorted)
             o == lines[r].outcome
         IN  EnumerateLines(Tail(sorted), i + 1, lines,
                 IF o = "text" THEN acc @@ (i :> [rec |-> r, kind |-> "text"])
                 ELSE IF o = "empty_text" THEN acc @@ (i :> [rec |-> r, kind |-> "empty"])
                 ELSE IF o = "no_response" THEN acc @@ (i :> [rec |-> r, kind |-> "error_msg"])
                 ELSE acc)

\* gemini.py (parsing) lines 28-92: the lines of the files that download
\* are gathered, sorted by request fileUri (line 54, in no try block), and
\* enumerated.
GeminiParser_parse(folder) ==
    LET all_lines == {r \in DOMAIN folder.lines :
                         folder.downloaded[folder.lines[r].file]}
    IN  IF all_lines = {} THEN Dict(<<>>)
        ELSE IF \E r \in all_lines : folder.lines[r].outcome = "unparseable"
        THEN Raised("JSONDecodeError")
        ELSE Dict(EnumerateLines(SortedSeq(all_lines), 0, folder.lines, <<>>))

\* A call of one of the three parsers on any folder.
InitParse ==
    /\ \/ parser = "GroundTruthParser" /\ parse_input \in Folders(TextFileOutcomes)
       \/ parser = "ChirpParser" /\ parse_input \in Folders(ChirpFileOutcomes)
       \/ parser = "GeminiParser" /\ parse_input \in GeminiFolders
    /\ parse_result = NoMapping
    /\ MainUnused
    /\ WerUnused
    /\ RetryUnused
    /\ GeminiUnused

ParseGroundTruth ==
    /\ parser = "GroundTruthParser"
    /\ parse_result = NoMapping
    /\ parse_result' = GroundTruthParser_parse(parse_input)
    /\ UNCHANGED <<parser, parse_input>>
    /\ UNCHANGED <<werVars, retryVars, geminiVars, mainVars>>

ParseChirp ==
    /\ parser = "ChirpParser"
    /\ parse_result = NoMapping
    /\ parse_result' = ChirpParser_parse(parse_input)
    /\ UNCHANGED <<parser, parse_input>>
    /\ UNCHANGED <<werVars, retryVars, geminiVars, mainVars>>

ParseGemini ==
    /\ parser = "GeminiParser"
    /\ parse_result = NoMapping
    /\ parse_result' = GeminiParser_parse(parse_input)
    /\ UNCHANGED <<parser, parse_input>>
    /\ UNCHANGED <<werVars, retryVars, geminiVars, mainVars>>

NextParse == ParseGroundTruth \/ ParseChirp \/ ParseGemini

SpecParse == InitParse /\ [][NextParse]_vars

(***************************************************************************)
(* main (main.py lines 53-190), after the configuration is loaded: the     *)
(* transcription phase, the parsing phase, the analysis phase.  The        *)
(* transcribers and the folders the parsers read are the environment.      *)
(***************************************************************************)
\* The names of config.gemini.models.
GeminiNames == {"gemini"}

\* f"recording_{i}"
KeyName(i) == "recording_" \o ToString(i)

\* The text stored for a recording: its transcript, an empty text, or the
\* message "Error: ..." that GeminiParser stores for a missing response.
TranscriptText(v) ==
    CASE v.kind = "text" -> <<"a", " ", "b">>
      [] v.kind = "empty" -> <<>>
      [] v.kind = "error_msg" -> <<"c">>

\* A mapping as the dict calculate_wer iterates: the keys in insertion
\* order, which is the order of the indices.
AsGroundTruth(mapping) ==
    LET order == SortedSeq(DOMAIN mapping)
    IN  [p \in 1..Len(order) |-> <<KeyName(order[p]), TranscriptText(mapping[order[p]])>>]

AsHypothesisSet(mapping) ==
    LET keys == {KeyName(i) : i \in DOMAIN mapping}
    IN  [k \in keys |->
            TranscriptText(mapping[CHOOSE i \in DOMAIN mapping : KeyName(i) = k])]

AsHypotheses(all) ==
    [j \in 1..Len(all) |-> <<all[j][1], AsHypothesisSet(all[j][2])>>]

InitMain ==
    /\ mpc = "transcription"
    /\ chirp_output_path = "None"
    /\ gemini_output_paths = {}
    /\ ground_truth_data = NoMapping
    /\ all_hypotheses = <<>>
    /\ exit_status = "none"
    /\ ParseUnused
    /\ WerUnused
    /\ RetryUnused
    /\ GeminiUnused

\* main.py lines 53-112: each transcriber returns its output folder or
\* raises, and a failure is only logged.
MainTranscribe ==
    /\ mpc = "transcription"
    /\ chirp_output_path' \in {"None", "gs://out/chirp/"}
    /\ gemini_output_paths' \in SUBSET GeminiNames
    /\ mpc' = "parse_ground_truth"
    /\ UNCHANGED <<ground_truth_data, all_hypotheses, exit_status>>
    /\ UNCHANGED <<werVars, retryVars, geminiVars, parseVars>>

\* main.py lines 117-128: the ground truth is parsed; an exception ends
\* the process with status 1.
MainParseGroundTruth ==
    /\ mpc = "parse_ground_truth"
    /\ \E folder \in Folders(TextFileOutcomes) :
          LET parsed == GroundTruthParser_parse(folder)
          IN  IF parsed.kind = "raised"
              THEN /\ exit_status' = 1
                   /\ mpc' = "exited"
                   /\ UNCHANGED ground_truth_data
              ELSE /\ ground_truth_data' = parsed
                   /\ mpc' = "parse_chirp"
                   /\ UNCHANGED exit_status
    /\ UNCHANGED <<chirp_output_path, gemini_output_paths, all_hypotheses>>
    /\ UNCHANGED <<werVars, retryVars, geminiVars, parseVars>>

\* main.py lines 129-137: the Chirp results are parsed if Chirp returned a
\* folder; an exception is only logged.
MainParseChirp ==
    /\ mpc = "parse_chirp"
    /\ IF chirp_output_path # "None"
       THEN \E folder \in Folders(ChirpFileOutcomes) :
               LET parsed == ChirpParser_parse(folder)
               IN  all_hypotheses' =
                      IF parsed.kind = "raised" THEN all_hypotheses
                      ELSE Append(all_hypotheses, <<"chirp", parsed.dict>>)
       ELSE UNCHANGED all_hypotheses
    /\ mpc' = "parse_gemini"
    /\ UNCHANGED <<chirp_output_path, gemini_output_paths, ground_truth_data,
                   exit_status>>
    /\ UNCHANGED <<werVars, retryVars, geminiVars, parseVars>>

\* main.py lines 140-148: the results of the Gemini runs that returned a
\* folder are parsed; an exception is only logged.
MainParseGemini ==
    /\ mpc = "parse_gemini"
    /\ IF "gemini" \in gemini_output_paths
       THEN \E folder \in GeminiFolders :
               LET parsed == GeminiParser_parse(folder)
               IN  all_hypotheses' =
                      IF parsed.kind = "raised" THEN all_hypotheses
                      ELSE Append(all_hypotheses, <<"gemini", parsed.dict>>)
       ELSE UNCHANGED all_hypotheses
    /\ mpc' = "check_hypotheses"
    /\ UNCHANGED <<chirp_output_path, gemini_output_paths, ground_truth_data,
                   exit_status>>
    /\ UNCHANGED <<werVars, retryVars, geminiVars, parseVars>>

\* Mutant: the analysis phase is entered whatever was parsed.
MainCheckHypothesesSkipped ==
    /\ mpc = "check_hypotheses"
    /\ ground_truth' = AsGroundTruth(ground_truth_data.dict)
    /\ hypotheses' = AsHypotheses(all_hypotheses)
    /\ include_detailed_metrics' = TRUE
    /\ pc' = "start"
    /\ mpc' = "analysis"
    /\ UNCHANGED <<exit_status, ki, mi, row, results, warnings, df, error>>
    /\ UNCHANGED <<chirp_output_path, gemini_output_paths, ground_truth_data,
                   all_hypotheses>>
    /\ UNCHANGED <<retryVars, geminiVars, parseVars>>

\* main.py lines 150-162: with no parsed model the process ends with status
\* 1, otherwise calculate_wer is called.
MainCheckHypotheses ==
    /\ mpc = "check_hypotheses"
    /\ IF all_hypotheses = <<>>
       THEN /\ exit_status' = 1
            /\ mpc' = "exited"
            /\ UNCHANGED <<ground_truth, hypotheses, include_detailed_metrics, pc>>
       ELSE /\ ground_truth' = AsGroundTruth(ground_truth_data.dict)
            /\ hypotheses' = AsHypotheses(all_hypotheses)
            /\ include_detailed_metrics' = TRUE
            /\ pc' = "start"
            /\ mpc' = "analysis"
            /\ UNCHANGED exit_status
    /\ UNCHANGED <<ki, mi, row, results, warnings, df, error>>
    /\ UNCHANGED <<chirp_output_path, gemini_output_paths, ground_truth_data,
                   all_hypotheses>>
    /\ UNCHANGED <<retryVars, geminiVars, parseVars>>

\* main.py lines 164-190: the table is printed and saved, or the exception
\* of the analysis phase ends the process with status 1.
MainFinish ==
    /\ mpc = "analysis"
    /\ pc \in {"done", "raised"}
    /\ IF pc = "raised" THEN exit_status' = 1 ELSE exit_status' \in {0, 1}
    /\ mpc' = "exited"
    /\ UNCHANGED <<chirp_output_path, gemini_output_paths, ground_truth_data,
                   all_hypotheses>>
    /\ UNCHANGED <<werVars, retryVars, geminiVars, parseVars>>

NextMain ==
    \/ MainTranscribe
    \/ MainParseGroundTruth
    \/ MainParseChirp
    \/ MainParseGemini
    \/ MainCheckHypotheses
    \/ CheckInputs
    \/ NextKey
    \/ ScoreModel
    \/ AppendRow
    \/ Summarize
    \/ MainFinish

SpecMain == InitMain /\ [][NextMain]_vars

(***************************************************************************)
(* Vocabulary of the properties.                                           *)
(***************************************************************************)
KeyAt(i) == ground_truth[i][1]
ReferenceAt(i) == ground_truth[i][2]
ModelAt(j) == hypotheses[j][1]
HypothesisAt(i, j) == get(hypotheses[j][2], KeyAt(i))

RefWords(i) == transformation(ReferenceAt(i))
HypWords(i, j) == transformation(HypothesisAt(i, j).str)

\* The loops have gone past model j of ground-truth item i.
Processed(i, j) ==
    /\ i \in 1..Len(ground_truth)
    /\ j \in 1..Len(hypotheses)
    /\ \/ i <= Len(results)
       \/ i = ki /\ pc \in {"for_model", "raised"} /\ j < mi

\* The row of ground-truth item i: finished, or under construction.
RowAt(i) == IF i <= Len(results) THEN results[i] ELSE row

HasCell(r, model_name, suffix) == (model_name \o suffix) \in DOMAIN r

Scored(i, j) == Processed(i, j) /\ HasCell(RowAt(i), ModelAt(j), "_wer")

\* An integer cell of a row.
Count(i, j, suffix) == RowAt(i)[ModelAt(j) \o suffix][1]

Wer(i, j) == RowAt(i)[ModelAt(j) \o "_wer"]

Edits(i, j) ==
    Count(i, j, "_substitutions") + Count(i, j, "_deletions")
        + Count(i, j, "_insertions")

Cells == (1..Len(ground_truth)) \X (1..Len(hypotheses))

\* The Levenshtein distance by its defining recursion on the two lists.
RECURSIVE Levenshtein(_, _)
Levenshtein(a, b) ==
    IF a = <<>> THEN Len(b)
    ELSE IF b = <<>> THEN Len(a)
    ELSE IF Head(a) = Head(b) THEN Levenshtein(Tail(a), Tail(b))
    ELSE 1 + Min2(Levenshtein(Tail(a), Tail(b)),
                  Min2(Levenshtein(Tail(a), b), Levenshtein(a, Tail(b))))

\* C1: for every scored pair, substitutions + deletions + insertions is the
\* minimum word-level edit distance between the normalized reference and the
\* normalized hypothesis, which is the last cell of the cost table.
C1_TotalIsEditDistance ==
    include_detailed_metrics =>
        \A c \in Cells :
            Scored(c[1], c[2]) =>
                LET ref == RefWords(c[1])
                    hyp == HypWords(c[1], c[2])
                IN  /\ Edits(c[1], c[2]) = Levenshtein(ref, hyp)
                    /\ Edits(c[1], c[2])
                         = Cell(CostTable(ref, hyp), Len(ref), Len(hyp))

\* A finished call that scored a pair with a substitution and an insertion
\* or deletion beside at least one hit.
C1_Witness ==
    /\ pc = "done"
    /\ include_detailed_metrics
    /\ \E c \in Cells :
          /\ Scored(c[1], c[2])
          /\ Count(c[1], c[2], "_substitutions") >= 1
          /\ Count(c[1], c[2], "_deletions") + Count(c[1], c[2], "_insertions") >= 1
          /\ Count(c[1], c[2], "_hits") >= 1

Max2(x, y) == IF x >= y THEN x ELSE y

\* The call stopped with an exception while scoring model j of item i.
RaisedAt(i, j) == pc = "raised" /\ i = ki /\ j = mi

\* C2: for every scored pair the _wer value is (substitutions + deletions +
\* insertions) / max(1, number of normalized reference words), and a
\* reference that normalizes to no word is scored without error.
C2_WerOverMaxOneRef ==
    \A c \in Cells :
        /\ Scored(c[1], c[2]) =>
              Wer(c[1], c[2])
                = Frac(IF include_detailed_metrics
                       THEN Edits(c[1], c[2])
                       ELSE Levenshtein(RefWords(c[1]), HypWords(c[1], c[2])),
                       Max2(1, Len(RefWords(c[1]))))
        /\ RefWords(c[1]) = <<>> => ~RaisedAt(c[1], c[2])

\* C3: a hypothesis with the same normalized word list as the reference,
\* empty or not, is scored with substitutions = deletions = insertions = 0,
\* hits = number of words and WER = 0.
C3_Identity ==
    \A c \in Cells :
        (/\ ~HypothesisAt(c[1], c[2]).none
         /\ HypWords(c[1], c[2]) = RefWords(c[1]))
        => /\ ~RaisedAt(c[1], c[2])
           /\ Processed(c[1], c[2]) =>
                /\ Scored(c[1], c[2])
                /\ Wer(c[1], c[2]) = Num(0)
                /\ include_detailed_metrics =>
                     /\ Edits(c[1], c[2]) = 0
                     /\ Count(c[1], c[2], "_substitutions") = 0
                     /\ Count(c[1], c[2], "_deletions") = 0
                     /\ Count(c[1], c[2], "_insertions") = 0
                     /\ Count(c[1], c[2], "_hits") = Len(RefWords(c[1]))

\* words without the word at position p.
RemoveAt(words, p) == SubSeq(words, 1, p - 1) \o SubSeq(words, p + 1, Len(words))

\* h2 is h with one extra word that occurs nowhere in ref.
OneForeignWordInserted(ref, h, h2) ==
    /\ Len(h2) = Len(h) + 1
    /\ \E p \in 1..Len(h2) : h2[p] \notin Range(ref) /\ RemoveAt(h2, p) = h

\* Models j and j2 were both scored on item i, and the hypothesis of j2 is
\* that of j with one extra word foreign to the reference.
InsertionPair(i, j, j2) ==
    /\ include_detailed_metrics
    /\ Scored(i, j)
    /\ Scored(i, j2)
    /\ OneForeignWordInserted(RefWords(i), HypWords(i, j), HypWords(i, j2))

Pairs == (1..Len(ground_truth)) \X (1..Len(hypotheses)) \X (1..Len(hypotheses))

\* C4 as stated: one extra word that matches no reference word raises the
\* insertions by exactly 1 and leaves substitutions, deletions and hits as
\* they were.
C4_InsertionOnly ==
    \A t \in Pairs :
        InsertionPair(t[1], t[2], t[3]) =>
            /\ Count(t[1], t[3], "_insertions") = Count(t[1], t[2], "_insertions") + 1
            /\ Count(t[1], t[3], "_substitutions") = Count(t[1], t[2], "_substitutions")
            /\ Count(t[1], t[3], "_deletions") = Count(t[1], t[2], "_deletions")
            /\ Count(t[1], t[3], "_hits") = Count(t[1], t[2], "_hits")

\* C4 amended: one extra word that matches no reference word never lowers
\* substitutions + deletions + insertions and raises it by at most 1, so
\* the WER is never lowered.
C4_EditsGrowByAtMostOne ==
    \A t \in Pairs :
        InsertionPair(t[1], t[2], t[3]) =>
            /\ Edits(t[1], t[3]) - Edits(t[1], t[2]) \in {0, 1}
            /\ FracLeq(Wer(t[1], t[2]), Wer(t[1], t[3]))

\* A finished call where the extra word took the place of a deletion: the
\* edits did not grow and the insertions did not change.
C4_Witness ==
    /\ pc = "done"
    /\ \E t \in Pairs :
          /\ InsertionPair(t[1], t[2], t[3])
          /\ Edits(t[1], t[3]) = Edits(t[1], t[2])
          /\ Count(t[1], t[3], "_insertions") = Count(t[1], t[2], "_insertions")
          /\ Count(t[1], t[3], "_deletions") = Count(t[1], t[2], "_deletions") - 1

\* hyp is ref without one of its words.
OneWordRemoved(ref, hyp) == \E p \in 1..Len(ref) : hyp = RemoveAt(ref, p)

\* hyp is ref with one word replaced by a different word.
OneWordReplaced(ref, hyp) ==
    /\ Len(hyp) = Len(ref)
    /\ \E p \in 1..Len(ref) :
          /\ hyp[p] # ref[p]
          /\ \A q \in 1..Len(ref) : q # p => hyp[q] = ref[q]

\* C5: a scored hypothesis that is the reference of n words without one word
\* has hits = n-1, deletions = 1, substitutions = insertions = 0, WER = 1/n;
\* one that is the reference with one word replaced by a different word has
\* hits = n-1, substitutions = 1, deletions = insertions = 0, WER = 1/n.
C5_SingleEdit ==
    include_detailed_metrics =>
        \A c \in Cells :
            Scored(c[1], c[2]) =>
                LET ref == RefWords(c[1])
                    hyp == HypWords(c[1], c[2])
                    i == c[1]
                    j == c[2]
                IN  /\ OneWordRemoved(ref, hyp) =>
                          /\ Count(i, j, "_hits") = Len(ref) - 1
                          /\ Count(i, j, "_deletions") = 1
                          /\ Count(i, j, "_substitutions") = 0
                          /\ Count(i, j, "_insertions") = 0
                          /\ Wer(i, j) = Frac(1, Len(ref))
                    /\ OneWordReplaced(ref, hyp) =>
                          /\ Count(i, j, "_hits") = Len(ref) - 1
                          /\ Count(i, j, "_substitutions") = 1
                          /\ Count(i, j, "_deletions") = 0
                          /\ Count(i, j, "_insertions") = 0
                          /\ Wer(i, j) = Frac(1, Len(ref))

\* A finished call that scored, against a reference of at least two words,
\* one hypothesis lacking a word and one hypothesis with a word replaced.
C5_Witness ==
    /\ pc = "done"
    /\ include_detailed_metrics
    /\ \E t \in Pairs :
          /\ Scored(t[1], t[2])
          /\ Scored(t[1], t[3])
          /\ Len(RefWords(t[1])) >= 2
          /\ OneWordRemoved(RefWords(t[1]), HypWords(t[1], t[2]))
          /\ OneWordReplaced(RefWords(t[1]), HypWords(t[1], t[3]))

EmptyInputError ==
    {"ValueError: Ground truth dictionary is empty",
     "ValueError: Hypotheses dictionary is empty"}

\* C6: with an empty ground-truth dict or an empty hypotheses dict the call
\* ends in ValueError, before any row is built, and returns no table.
C6_EmptyInputRaises ==
    (pc # "start" /\ (ground_truth = <<>> \/ hypotheses = <<>>)) =>
        /\ pc = "raised"
        /\ error \in EmptyInputError
        /\ ki = 0
        /\ row = ("file" :> "")
        /\ results = <<>>
        /\ df = <<>>

\* The call has raised for an empty hypotheses dict, the ground truth being
\* non-empty.
C6_Witness ==
    /\ pc = "raised"
    /\ ground_truth # <<>>
    /\ hypotheses = <<>>
    /\ error = "ValueError: Hypotheses dictionary is empty"

\* C7: once both dicts are non-empty the call never raises, whatever the
\* texts are.
C7_NoRowAborts ==
    (ground_truth # <<>> /\ hypotheses # <<>>) => pc # "raised"

ModelColumns(model_name) ==
    {model_name \o suffix :
        suffix \in {"_wer", "_insertions", "_deletions", "_substitutions", "_hits"}}

Missing(i, j) == HypothesisAt(i, j).none

\* C8: when a model has no entry for a ground-truth key, the row of that key
\* holds no value in any column of the model, a warning is logged, and the
\* call goes on: it does not stop at that pair, and a call that finishes has
\* a row for every key, with the pairs that have a non-empty hypothesis
\* scored.
C8_MissingHypothesisSkipped ==
    /\ \A c \in Cells :
          Missing(c[1], c[2]) =>
             /\ ~RaisedAt(c[1], c[2])
             /\ Processed(c[1], c[2]) =>
                   /\ DOMAIN RowAt(c[1]) \cap ModelColumns(ModelAt(c[2])) = {}
                   /\ <<KeyAt(c[1]), ModelAt(c[2])>> \in Range(warnings)
    /\ pc = "done" =>
          /\ Len(results) = Len(ground_truth)
          /\ \A c \in Cells :
                Truthy(HypothesisAt(c[1], c[2])) => Scored(c[1], c[2])

\* A finished call in which a row lacks the hypothesis of one model, holds
\* the score of another model, and another row holds a score of the first.
C8_Witness ==
    /\ pc = "done"
    /\ \E t \in Pairs, i2 \in 1..Len(ground_truth) :
          /\ Missing(t[1], t[2])
          /\ Scored(t[1], t[3])
          /\ i2 # t[1]
          /\ Scored(i2, t[2])

\* C9: in the returned table, every pair whose model has an entry for the
\* ground-truth key, whatever its text, has a _wer value.
C9_EveryEntryScored ==
    pc = "done" =>
        \A c \in Cells :
            ~HypothesisAt(c[1], c[2]).none =>
                HasCell(df[c[1]], ModelAt(c[2]), "_wer")

SummaryKeys == {"AVERAGE", "MEDIAN"}

\* C10: the rows are the ground-truth keys, one row per key: while the call
\* runs each finished row is the row of the ground-truth item of the same
\* rank, and the returned table holds, before its two summary rows, exactly
\* one row per ground-truth key and no other, so a key found only in a
\* hypotheses dict has no row, and the cells of a row are the scores of the
\* texts filed under the key of that row.
C10_RowsAreGroundTruthKeys ==
    /\ Len(results) <= Len(ground_truth)
    /\ \A i \in 1..Len(results) : results[i]["file"] = KeyAt(i)
    /\ pc = "done" =>
          /\ Len(df) = Len(ground_truth) + 2
          /\ \A i \in 1..Len(ground_truth) : df[i]["file"] = KeyAt(i)
          /\ \A i \in 1..Len(df) :
                df[i]["file"] \notin SummaryKeys => df[i]["file"] \in DictKeys(ground_truth)
          /\ \A k \in DictKeys(ground_truth) :
                Cardinality({i \in 1..Len(df) : df[i]["file"] = k}) = 1
          /\ \A c \in Cells :
                LET r == df[c[1]]
                    cols == ModelColumns(ModelAt(c[2])) \cap DOMAIN r
                IN  cols # {} =>
                       /\ Truthy(HypothesisAt(c[1], c[2]))
                       /\ \E output \in process_words(ReferenceAt(c[1]),
                                                      HypothesisAt(c[1], c[2]).str) :
                             [col \in cols |-> r[col]]
                               = ScoredCells(ModelAt(c[2]), output,
                                             include_detailed_metrics)

\* A finished call on two ground-truth keys, one of which no model has a
\* hypothesis for, while a model has a hypothesis for a key that is not in
\* the ground truth.
C10_Witness ==
    /\ pc = "done"
    /\ \E i \in 1..Len(ground_truth) :
          /\ DOMAIN df[i] = {"file"}
          /\ \A j \in 1..Len(hypotheses) : Missing(i, j)
    /\ \E j \in 1..Len(hypotheses) :
          DOMAIN hypotheses[j][2] \ DictKeys(ground_truth) # {}


\* C11: the recording rows of the result table stand in the iteration order
\* of the ground-truth mapping, exactly two summary rows follow them,
\* "AVERAGE" then "MEDIAN", and no summary row exists before every recording
\* row has been appended.
C11_RowOrder ==
    /\ pc # "done" => df = <<>>
    /\ df # <<>> =>
          LET n == Len(ground_truth)
          IN  /\ Len(results) = n
              /\ Len(df) = n + 2
              /\ SubSeq(df, 1, n) = results
              /\ \A i \in 1..n : df[i]["file"] = KeyAt(i)
              /\ df[n + 1]["file"] = "AVERAGE"
              /\ df[n + 2]["file"] = "MEDIAN"
              /\ \A i \in 1..n : df[i]["file"] \notin SummaryKeys

\* A returned table over two recordings whose ground-truth order is not the
\* sorted order of the keys.
C11_Witness ==
    /\ pc = "done"
    /\ Len(ground_truth) = 2
    /\ KeyAt(1) = "recording_1"
    /\ df[1]["file"] = "recording_1"
    /\ df[2]["file"] = "recording_0"
    /\ df[4]["file"] = "MEDIAN"


\* The recording rows of the returned table that hold a value in column c.
RowsWith(c) == {i \in 1..Len(ground_truth) : c \in DOMAIN df[i]}

RECURSIVE SumOver(_, _)
SumOver(I, c) ==
    IF I = {} THEN Num(0)
    ELSE LET i == CHOOSE x \in I : TRUE
         IN  FracAdd(df[i][c], SumOver(I \ {i}, c))

FracLess(a, b) == a[1] * b[2] < b[1] * a[2]

\* x is the r-th smallest of the values of column c in the rows I.
IsRank(x, r, I, c) ==
    /\ Cardinality({i \in I : FracLess(df[i][c], x)}) <= r - 1
    /\ Cardinality({i \in I : ~FracLess(x, df[i][c])}) >= r

IsMeanOf(m, I, c) == SumOver(I, c) = Frac(m[1] * Cardinality(I), m[2])

IsMedianOf(m, I, c) ==
    LET k == Cardinality(I)
    IN  IF k % 2 = 1
        THEN \E i \in I : df[i][c] = m /\ IsRank(m, (k + 1) \div 2, I, c)
        ELSE \E i, j \in I :
                /\ IsRank(df[i][c], k \div 2, I, c)
                /\ IsRank(df[j][c], (k \div 2) + 1, I, c)
                /\ FracAdd(df[i][c], df[j][c]) = FracAdd(m, m)

\* C12: in the returned table the AVERAGE row holds, for every numeric
\* column, the arithmetic mean, and the MEDIAN row the median, of the values
\* the recording rows hold in that column; a row without the value is left
\* out of both (it is not a 0), the AVERAGE row is not among the values of
\* the median, and a column no recording row has a value in has no summary.
C12_Aggregation ==
    pc = "done" =>
        LET n == Len(ground_truth)
            cols == (UNION {DOMAIN df[i] : i \in 1..n}) \ {"file"}
        IN  /\ DOMAIN df[n + 1] = cols \cup {"file"}
            /\ DOMAIN df[n + 2] = cols \cup {"file"}
            /\ \A c \in cols :
                  /\ IsMeanOf(df[n + 1][c], RowsWith(c), c)
                  /\ IsMedianOf(df[n + 2][c], RowsWith(c), c)

\* A returned table over three recordings in which one column has three
\* values whose median is not their mean, and another column has two
\* different values and one absent.
C12_Witness ==
    /\ pc = "done"
    /\ Len(ground_truth) = 3
    /\ Cardinality(RowsWith("chirp_wer")) = 3
    /\ df[4]["chirp_wer"] # df[5]["chirp_wer"]
    /\ Cardinality(RowsWith("gemini_wer")) = 2
    /\ \E i, j \in RowsWith("gemini_wer") : df[i]["gemini_wer"] # df[j]["gemini_wer"]
    /\ df[4]["gemini_wer"] = Frac(1, 2)


\* The texts of pair (i, j) can be scored: a non-empty hypothesis and a
\* reference with at least one word.
Scoreable(i, j) ==
    Truthy(HypothesisAt(i, j)) /\ ~ReferenceRefused(ReferenceAt(i))

\* C13: the values of the cell group of (key, model) depend on the reference
\* of that key and the hypothesis of that model for that key alone: once the
\* call has ended, a pair whose own texts can be scored has its values in
\* the returned table, and they are the scores of its own two texts,
\* whatever the other keys and the other models hold.
C13_Independence ==
    pc \in {"done", "raised"} =>
        \A c \in Cells :
            Scoreable(c[1], c[2]) =>
                /\ pc = "done"
                /\ \E output \in process_words(ReferenceAt(c[1]),
                                               HypothesisAt(c[1], c[2]).str) :
                      [col \in ModelColumns(ModelAt(c[2])) \cap DOMAIN df[c[1]]
                          |-> df[c[1]][col]]
                        = ScoredCells(ModelAt(c[2]), output, include_detailed_metrics)


\* C14: reference and hypothesis go through the same transform, so a
\* hypothesis that differs from the reference only in the case of a letter,
\* in a punctuation character or in the amount of whitespace has the same
\* normalized word list, and the pair, when scored, has WER 0.
C14_Symmetry ==
    \A c \in Cells :
        (/\ ~HypothesisAt(c[1], c[2]).none
         /\ HypothesisAt(c[1], c[2]).str \in Variants(ReferenceAt(c[1])))
        => /\ HypWords(c[1], c[2]) = RefWords(c[1])
           /\ Scored(c[1], c[2]) => Wer(c[1], c[2]) = Num(0)

\* The text before the split: lowercased, whitespace runs collapsed,
\* stripped, punctuation removed.
BeforeSplit(s) == RemovePunctuation(Strip(RemoveMultipleSpaces(ToLowerCase(s))))

\* C15: no word of a normalized word list is the empty string, for the
\* reference and the hypothesis of every pair, so the counts of a scored
\* pair are counts of non-empty words: hits + substitutions + deletions is
\* the number of maximal space-free stretches of the reference before the
\* split.
C15_NoEmptyToken ==
    \A c \in Cells :
        /\ <<>> \notin Range(RefWords(c[1]))
        /\ ~HypothesisAt(c[1], c[2]).none => <<>> \notin Range(HypWords(c[1], c[2]))
        /\ (Scored(c[1], c[2]) /\ include_detailed_metrics) =>
              LET t == BeforeSplit(ReferenceAt(c[1]))
              IN  Count(c[1], c[2], "_hits") + Count(c[1], c[2], "_substitutions")
                      + Count(c[1], c[2], "_deletions")
                    = Cardinality({p \in 1..Len(t) :
                                      t[p] # " " /\ (p = 1 \/ t[p - 1] = " ")})

\* A scored pair whose reference has a punctuation mark standing alone
\* between two words, so that the text before the split has two consecutive
\* spaces, and whose two words are both hits.
C15_Witness ==
    \E c \in Cells :
        /\ Scored(c[1], c[2])
        /\ include_detailed_metrics
        /\ LET t == BeforeSplit(ReferenceAt(c[1]))
           IN  \E p \in 1..(Len(t) - 1) : t[p] = " " /\ t[p + 1] = " "
        /\ Len(RefWords(c[1])) = 2
        /\ Count(c[1], c[2], "_hits") = 2


(***************************************************************************)
(* Properties of retry_with_backoff (specification SpecRetry).             *)
(***************************************************************************)
\* The exception type is an instance of a type of the argument exceptions.
IsListed(type) ==
    \/ type \in exceptions
    \/ "Exception" \in exceptions /\ type \in {"GoogleAPIError", "ValueError"}

AllAttemptsRaisedListed ==
    /\ Len(calls) = max_retries + 1
    /\ \A k \in 1..Len(calls) : calls[k].type # "return" /\ IsListed(calls[k].type)

\* C17: one invocation of the wrapper calls the function at most
\* max_retries + 1 times, one call per attempt; a call that returns is the
\* last call and the wrapper returns at once; when all max_retries + 1
\* attempts raised a listed exception nothing is returned and the exception
\* that leaves the wrapper is the one of the last attempt.
C17_BoundedAttempts ==
    /\ Len(calls) <= max_retries + 1
    /\ \A k \in 1..Len(calls) : calls[k].attempt = k - 1
    /\ \A k \in 1..Len(calls) :
          calls[k].type = "return" => k = Len(calls) /\ rpc = "returned"
    /\ rpc = "returned" => calls # <<>> /\ calls[Len(calls)].type = "return"
    /\ AllAttemptsRaisedListed =>
          /\ rpc \in {"loop", "raised"}
          /\ rpc = "loop" => attempt = max_retries + 1
          /\ rpc = "raised" => raised = calls[max_retries + 1]

\* An invocation with max_retries = 2 whose three attempts raised listed
\* exceptions, not all of the same type, and that raised the third.
C17_Witness ==
    /\ rpc = "raised"
    /\ max_retries = 2
    /\ AllAttemptsRaisedListed
    /\ calls[1].type # calls[3].type
    /\ raised = calls[3]

RECURSIVE Power(_, _)
Power(b, n) == IF n = 0 THEN 1 ELSE b * Power(b, n - 1)

\* C19: the wrapper sleeps once before every attempt but the first and not
\* after the last call; the k-th sleep lasts
\* initial_delay * backoff_factor^(k-1); an invocation whose attempts all
\* failed has slept max_retries times.
C19_Sleeps ==
    /\ \A k \in 1..Len(sleeps) :
          sleeps[k] = initial_delay * Power(backoff_factor, k - 1)
    /\ Len(sleeps) =
          IF rpc = "loop" /\ attempt <= max_retries THEN Len(calls)
          ELSE Len(calls) - 1
    /\ (rpc = "raised" /\ AllAttemptsRaisedListed) => Len(sleeps) = max_retries

\* An invocation with max_retries = 3 whose four attempts failed, after
\* sleeps of 3, 9 and 27 seconds.
C19_Witness ==
    /\ rpc = "raised"
    /\ max_retries = 3
    /\ AllAttemptsRaisedListed
    /\ sleeps = <<3, 9, 27>>


C20_CleanupOnExit ==
    /\ (gpc \in {"returned", "raised"} /\ request_file # "none") => cleanup # "none"
    /\ gpc = "report" => cleanup # "none"


\* C21: the polling loop is left, other than by an exception, exactly when
\* the fetched job state is SUCCEEDED, FAILED or CANCELLED; transcribe
\* returns only while the job is in SUCCEEDED at the service; and once the
\* job has reached one of the three states while transcribe polls,
\* transcribe eventually returns or raises.
C21_PollingTerminates ==
    /\ [](gpc \in {"report", "returned"} => job_state \in completed_states)
    /\ [](gpc = "returned" =>
            job_state = "JOB_STATE_SUCCEEDED" /\ remote_state = "JOB_STATE_SUCCEEDED")
    /\ [][(gpc = "poll" /\ job_state \in completed_states) => gpc' = "report"]_vars
    /\ [][(gpc = "poll" /\ job_state \notin completed_states) => gpc' \in {"poll", "raised"}]_vars
    /\ (gpc = "poll" /\ remote_state \in completed_states)
          ~> (gpc \in {"returned", "raised"})

\* transcribe has returned after a round of the polling loop fetched the
\* state SUCCEEDED.
C21_Witness ==
    /\ gpc = "returned"
    /\ logged_state = "JOB_STATE_SUCCEEDED"
    /\ remote_state = "JOB_STATE_SUCCEEDED"

\* C22: main calls calculate_wer only with a non-empty ground-truth mapping
\* and a non-empty hypotheses mapping, so that neither of the two
\* empty-input errors is ever raised in the pipeline.
C22_OnlyNonEmptyInputs ==
    /\ mpc = "analysis" => (ground_truth # <<>> /\ hypotheses # <<>>)
    /\ error \notin EmptyInputError

\* C22 (amended): calculate_wer is called only after the ground truth was
\* parsed without an exception and with a non-empty hypotheses mapping; the
\* process that ends before the call ends with status 1; the error of an
\* empty hypotheses mapping is never raised; a call with an empty
\* ground-truth mapping raises "Ground truth dictionary is empty" and builds
\* no row, and the process then ends with status 1.
C22_CallInputs ==
    /\ pc # "idle" =>
          /\ ground_truth_data.kind = "dict"
          /\ all_hypotheses # <<>>
          /\ hypotheses # <<>>
          /\ ground_truth = AsGroundTruth(ground_truth_data.dict)
    /\ (mpc = "exited" /\ pc = "idle") =>
          /\ exit_status = 1
          /\ ground_truth_data = NoMapping \/ all_hypotheses = <<>>
    /\ error # "ValueError: Hypotheses dictionary is empty"
    /\ (pc \notin {"idle", "start"} /\ ground_truth = <<>>) =>
          /\ pc = "raised"
          /\ error = "ValueError: Ground truth dictionary is empty"
          /\ results = <<>>
    /\ (mpc = "exited" /\ pc = "raised") => exit_status = 1

\* The process has ended with status 1 after calculate_wer was called with
\* the empty ground-truth mapping of a folder whose files gave no
\* transcript, and with the mapping of a parsed model.
C22_Witness ==
    /\ mpc = "exited"
    /\ exit_status = 1
    /\ ground_truth_data = Dict(<<>>)
    /\ all_hypotheses # <<>>
    /\ error = "ValueError: Ground truth dictionary is empty"

\* The items of the full input of the parser call, and the index of an item
\* in the sorted full input, counted from 0.
ParseItems ==
    IF parser = "GeminiParser" THEN DOMAIN parse_input.lines ELSE DOMAIN parse_input

IndexOf(r) == Cardinality({x \in ParseItems : x < r})

\* The item gives a transcript: it downloads, parses and is not empty.
GivesTranscript(r) ==
    IF parser = "GeminiParser"
    THEN /\ parse_input.downloaded[parse_input.lines[r].file]
         /\ parse_input.lines[r].outcome = "text"
    ELSE parse_input[r] = "text"

\* C23: a parser called on a folder with items returns a mapping in which
\* key recording_i is present exactly when the i-th item of the full sorted
\* input gives a transcript, and holds the transcript of that item: the
\* items that are empty or fail are omitted and shift no other key.
C23_KeyStability ==
    (parse_result # NoMapping /\ ParseItems # {}) =>
        /\ parse_result.kind = "dict"
        /\ \A r \in ParseItems :
              IF GivesTranscript(r)
              THEN /\ IndexOf(r) \in DOMAIN parse_result.dict
                   /\ parse_result.dict[IndexOf(r)] = [rec |-> r, kind |-> "text"]
              ELSE IndexOf(r) \notin DOMAIN parse_result.dict

\* The part of C23 that GroundTruthParser.parse satisfies.
C23_GroundTruthKeys ==
    parser = "GroundTruthParser" => C23_KeyStability

\* The rows built so far: the finished rows, the row under construction,
\* and the returned table with its two summary rows.
RowsBuilt == Range(results) \cup {row} \cup Range(df)

\* C24: in detailed mode, for every scored (key, model) pair, hits +
\* substitutions + deletions is the number of normalized reference tokens,
\* hits + substitutions + insertions is the number of normalized hypothesis
\* tokens, and the four counts are not negative; and in every row the five
\* columns of a model are all present or all absent.
C24_CountConservation ==
    include_detailed_metrics =>
        /\ \A c \in Cells :
              Scored(c[1], c[2]) =>
                LET H == Count(c[1], c[2], "_hits")
                    S == Count(c[1], c[2], "_substitutions")
                    D == Count(c[1], c[2], "_deletions")
                    I == Count(c[1], c[2], "_insertions")
                IN  /\ H + S + D = Len(RefWords(c[1]))
                    /\ H + S + I = Len(HypWords(c[1], c[2]))
                    /\ H >= 0 /\ S >= 0 /\ D >= 0 /\ I >= 0
        /\ \A r \in RowsBuilt : \A j \in 1..Len(hypotheses) :
              \/ ModelColumns(ModelAt(j)) \subseteq DOMAIN r
              \/ ModelColumns(ModelAt(j)) \cap DOMAIN r = {}

\* A finished detailed call with a pair scored with a hit and a deletion,
\* and a row in which a model has no column.
C24_Witness ==
    /\ pc = "done"
    /\ include_detailed_metrics
    /\ \E c \in Cells :
          /\ Scored(c[1], c[2])
          /\ Count(c[1], c[2], "_hits") > 0
          /\ Count(c[1], c[2], "_deletions") > 0
    /\ \E i \in 1..Len(results) : \E j \in 1..Len(hypotheses) :
          ModelColumns(ModelAt(j)) \cap DOMAIN results[i] = {}

====
